---- MODULE Spec2Model ----
(***************************************************************************)
(* Model of shared-ptr.h: control_block / ptr_block / obj_block,           *)
(* shared_ptr<T>, weak_ptr<T> and make_shared.                             *)
(*                                                                         *)
(* The heap is a fixed pool of control blocks that are handed out once     *)
(* each (no address reuse).  The payload object a block owns is named      *)
(* after the block: its address is the block's number.  A program is a set *)
(* of shared_ptr variables (sp) and weak_ptr variables (wp); every action  *)
(* is one public operation applied to them; a new variable takes the first *)
(* free slot.                                                              *)
(*                                                                         *)
(* Counters are `unsigned long`.  A counter value is kept as an integer n  *)
(* with |n| small; a negative n stands for 2^64 + n, so that n - 1 at 0 is *)
(* the wrapped value, `x > 0` is `x # 0` and `x + y == 0` is `x + y = 0`.  *)
(*                                                                         *)
(* Freed memory: an operation that finds its block already deleted, or     *)
(* deletes it half way, reads arbitrary counter values from it (Garbage)   *)
(* and sets uaf.  An operation is therefore a set of possible outcomes.    *)
(***************************************************************************)
EXTENDS Integers, FiniteSets, Sequences, TLC

\* ------------------------------------------------------------------ bounds
NumSP == 2          \* shared_ptr variables of the program
NumWP == 2          \* weak_ptr variables of the program
MaxBlocks == 2      \* control blocks ever allocated
MaxDropped == 1     \* raw pointers ever handed to a construction that fails
MaxGarbage == 1     \* largest counter value found in freed memory
CountCap == 2       \* release / delete tallies saturate here ("2 or more")

SP == 1..NumSP
WP == 1..NumWP
Blocks == 1..MaxBlocks
Dropped == 1..MaxDropped
Null == 0
\* the address of a sub-object, handed to the aliasing constructor
Member == MaxBlocks + 1
AliasPtrs == {Member}
Garbage == (0..MaxGarbage) \X (0..MaxGarbage)

VARIABLES
  sp,    \* sp[i]  = [live, cb, obj, alias]        shared_ptr::cb, shared_ptr::obj
  wp,    \* wp[k]  = [live, cb, obj, alias, home]  weak_ptr::cb, weak_ptr::obj
  blk,   \* blk[b] = [st, kind, strong, weak, p, unlinked, deletes]
  dropped, \* dropped[q] = [given, freed]: raw pointer q was handed to a failing
         \* make_cb, and the release action ran on it `freed` times
  uaf    \* a freed control block has been read, written or called

vars == <<sp, wp, blk, dropped, uaf>>

Sat(n) == IF n >= CountCap THEN CountCap ELSE n

DeadSp == [live |-> FALSE, cb |-> Null, obj |-> Null, alias |-> FALSE]
NullSp == [live |-> TRUE, cb |-> Null, obj |-> Null, alias |-> FALSE]
DeadWp == [live |-> FALSE, cb |-> Null, obj |-> Null, alias |-> FALSE, home |-> Null]
NullWp == [live |-> TRUE, cb |-> Null, obj |-> Null, alias |-> FALSE, home |-> Null]
NoBlock == [st |-> "unalloc", kind |-> "none", strong |-> 0, weak |-> 0,
            p |-> Null, unlinked |-> 0, deletes |-> 0]
NoDrop == [given |-> FALSE, freed |-> 0]

\* The mutable memory an operation threads through its steps.
Heap == [blk |-> blk, wp |-> wp, dropped |-> dropped, uaf |-> uaf]

\* ------------------------------------------------------ control_block
\* An access of *cb: undefined once the block has been deleted.
Touch(H, b) == IF H.blk[b].st = "deleted" THEN [H EXCEPT !.uaf = TRUE] ELSE H

\* What a read of *cb may find: the counters of a live block, anything in a
\* freed one.
Load(H, b) ==
  IF H.blk[b].st = "deleted"
    THEN {[H EXCEPT !.uaf = TRUE, !.blk[b].strong = g[1], !.blk[b].weak = g[2]] :
            g \in Garbage}
    ELSE {H}

\* control_block{} : strong_ref = 0, weak_ref = 0; p is ptr_block::p, or the
\* object built in obj_block::o
NewBlock(H, b, kind, p) ==
  [H EXCEPT !.blk[b] = [st |-> "live", kind |-> kind, strong |-> 0, weak |-> 0,
                        p |-> p, unlinked |-> 0, deletes |-> 0]]

\* cb->strong_ref++
IncStrong(H, b) == [H EXCEPT !.blk[b].strong = @ + 1]

\* (mutant) an observer that forgets cb->weak_ref++
IncWeak_Forgotten(H, b) == H

\* cb->weak_ref++
IncWeak(H, b) == [H EXCEPT !.blk[b].weak = @ + 1]

\* delete cb
DeleteBlock(H, b) ==
  [Touch(H, b) EXCEPT !.blk[b].st = "deleted", !.blk[b].deletes = Sat(@ + 1)]

\* ------------------------------------------------------ weak_ptr::unlink
\* The block part of weak_ptr::unlink for cb = b, on the counters as read.
WeakUnlinkLoaded(H, b) ==
  LET H1 == [H EXCEPT !.blk[b].weak = @ - 1]
  IN IF H1.blk[b].strong + H1.blk[b].weak = 0 THEN DeleteBlock(H1, b) ELSE H1

WeakUnlink(H, b) ==
  IF b = Null THEN {H} ELSE {WeakUnlinkLoaded(H1, b) : H1 \in Load(H, b)}

\* ~weak_ptr() of variable k
WeakDestroy(H, k) == {[H1 EXCEPT !.wp[k] = DeadWp] : H1 \in WeakUnlink(H, H.wp[k].cb)}

\* The weak_ptr members of the payload object owned by block b.
Members(H, b) == {k \in WP : H.wp[k].live /\ H.wp[k].home = b}

\* ptr_block::unlink / obj_block::unlink: the release action runs on the
\* payload (unlinked tallies the runs), and the payload's destructor destroys
\* the weak_ptr it holds (if any).
RunUnlink(H, b) ==
  LET H1 == [H EXCEPT !.blk[b].unlinked = Sat(@ + 1)]
      ms == Members(H1, b)
  IN IF ms = {} THEN {H1} ELSE WeakDestroy(H1, CHOOSE k \in ms : TRUE)

\* cb->unlink(): a virtual call, undefined on a freed block, where it may or
\* may not land in the block's unlink.
BlockUnlink(H, b) ==
  IF H.blk[b].st = "deleted" THEN {Touch(H, b)} \cup RunUnlink(Touch(H, b), b)
  ELSE RunUnlink(H, b)

\* ------------------------------------------------------ shared_ptr::unlink
\* if (cb->strong_ref > 0) cb->strong_ref--;
DecStrong(H, b) ==
  IF H.blk[b].strong # 0 THEN [H EXCEPT !.blk[b].strong = @ - 1] ELSE H

\* if (cb->strong_ref == 0) cb->unlink();
UnlinkAtZero(H, b) ==
  IF H.blk[b].strong = 0 THEN BlockUnlink(H, b) ELSE {H}

\* if (cb->strong_ref + cb->weak_ref == 0) delete cb;
DeleteAtZero(H, b) ==
  IF H.blk[b].strong + H.blk[b].weak = 0 THEN DeleteBlock(H, b) ELSE H

\* The counters as read after cb->unlink() returned: those of memory freed
\* meanwhile are arbitrary.
Reload(H0, H, b) ==
  IF H0.blk[b].st # "deleted" /\ H.blk[b].st = "deleted" THEN Load(H, b) ELSE {H}

\* The block part of shared_ptr::unlink for cb = b (the caller clears cb, obj).
SharedUnlink(H, b) ==
  IF b = Null THEN {H}
  ELSE UNION {
         UNION { {DeleteAtZero(H3, b) : H3 \in Reload(H1, H2, b)} :
                 H2 \in UnlinkAtZero(DecStrong(H1, b), b) } :
         H1 \in Load(H, b) }

\* ------------------------------------------------------ observers
\* shared_ptr::use_count
use_count(s) == IF s.cb # Null THEN blk[s.cb].strong ELSE 0
\* shared_ptr::get
get(s) == s.obj
\* shared_ptr::operator bool
to_bool(s) == s.obj # Null
\* shared_ptr::operator==
sp_equal(s, t) == (s.cb = t.cb) /\ (s.obj = t.obj)

\* ------------------------------------------------------ allocation
FreshBlocks == {b \in Blocks : blk[b].st = "unalloc"}
FreshBlock == CHOOSE b \in FreshBlocks : \A c \in FreshBlocks : b <= c
FreshDrops == {q \in Dropped : ~dropped[q].given}
FreshDrop == CHOOSE q \in FreshDrops : \A r \in FreshDrops : q <= r
\* a new variable takes the first free slot
FirstFreeSp(i) == ~sp[i].live /\ \A n \in SP : n < i => sp[n].live
FirstFreeWp(k) == ~wp[k].live /\ \A n \in WP : n < k => wp[n].live

\* The state kept of freed memory is none: its counters read as garbage anew
\* at the next access.
Settle(H) ==
  [H EXCEPT !.blk = [b \in Blocks |->
     IF H.blk[b].st = "deleted"
       THEN [H.blk[b] EXCEPT !.strong = 0, !.weak = 0] ELSE H.blk[b]]]

Commit(H) == /\ blk' = Settle(H).blk
             /\ wp' = H.wp
             /\ dropped' = H.dropped
             /\ uaf' = H.uaf

\* Once freed memory has been used the behaviour of the program is undefined:
\* the operation that uses it is taken, with every outcome it may have, and
\* the program is followed no further.
Defined == ~uaf

Init ==
  /\ sp = [i \in SP |-> DeadSp]
  /\ wp = [k \in WP |-> DeadWp]
  /\ blk = [b \in Blocks |-> NoBlock]
  /\ dropped = [q \in Dropped |-> NoDrop]
  /\ uaf = FALSE

\* cb->strong_ref++ behind `if (cb != nullptr)`
Acquire(H, b) == IF b = Null THEN {H} ELSE {IncStrong(H1, b) : H1 \in Load(H, b)}

\* cb->weak_ref++ behind `if (other.cb)` / `if (cb != nullptr)`
Observe(H, b) == IF b = Null THEN {H} ELSE {IncWeak(H1, b) : H1 \in Load(H, b)}

\* ------------------------------------------------------ shared_ptr operations
\* shared_ptr() noexcept = default
SpDefault(i) ==
  /\ Defined
  /\ FirstFreeSp(i)
  /\ sp' = [sp EXCEPT ![i] = NullSp]
  /\ Commit(Heap)

\* explicit shared_ptr(std::nullptr_t): cb(new ptr_block<T>(nullptr)), and no
\* strong_ref++
NullptrBlock(H, b) == NewBlock(H, b, "ptr", Null)

SpNullptr(i) ==
  /\ Defined
  /\ FirstFreeSp(i)
  /\ FreshBlocks # {}
  /\ sp' = [sp EXCEPT ![i] = [live |-> TRUE, cb |-> FreshBlock, obj |-> Null,
                               alias |-> FALSE]]
  /\ Commit(NullptrBlock(Heap, FreshBlock))

\* make_cb, allocation succeeded: cb = new ptr_block(ptr, d); obj = ptr;
\* cb->strong_ref++
MakeCbOk(H, b, p) == IncStrong(NewBlock(H, b, "ptr", p), b)

\* (mutant) a make_cb that lets the failure through without d(ptr)
MakeCbFail_NoRelease(H, q) ==
  [H EXCEPT !.dropped[q] = [given |-> TRUE, freed |-> @.freed]]

\* make_cb, allocation failed: catch (...) { d(ptr); throw; }
MakeCbFail(H, q) ==
  [H EXCEPT !.dropped[q] = [given |-> TRUE, freed |-> Sat(@.freed + 1)]]

\* The raw pointers a caller may hand over with block b about to be allocated:
\* null, or a new object (named after b).
RawPtrs(b) == {Null, b}

\* explicit shared_ptr(T_construct* ptr, Deleter d)
SpFromRaw(i, p) ==
  /\ Defined
  /\ FirstFreeSp(i)
  /\ FreshBlocks # {} /\ p \in RawPtrs(FreshBlock)
  /\ sp' = [sp EXCEPT ![i] = [live |-> TRUE, cb |-> FreshBlock, obj |-> p,
                               alias |-> FALSE]]
  /\ Commit(MakeCbOk(Heap, FreshBlock, p))

\* the same, with `new` throwing: the constructor exits by the exception and
\* no shared_ptr comes to exist
SpFromRawFail(i, q) ==
  /\ Defined
  /\ FirstFreeSp(i)
  /\ q \in FreshDrops /\ q = FreshDrop
  /\ sp' = sp
  /\ Commit(MakeCbFail(Heap, q))

\* (mutant) a make_shared that forgets ob->strong_ref++
MakeSharedBlock_NoIncrement(H, b) == NewBlock(H, b, "obj", b)

\* make_shared: new obj_block<T>(args...); ob->strong_ref++
MakeSharedBlock(H, b) == IncStrong(NewBlock(H, b, "obj", b), b)

MakeShared(i) ==
  /\ Defined
  /\ FirstFreeSp(i)
  /\ FreshBlocks # {}
  /\ sp' = [sp EXCEPT ![i] = [live |-> TRUE, cb |-> FreshBlock,
                               obj |-> FreshBlock, alias |-> FALSE]]
  /\ Commit(MakeSharedBlock(Heap, FreshBlock))

\* shared_ptr(shared_ptr<T_parent>& parent, T* ptr)
AliasOf(parent, ptr) ==
  [live |-> TRUE, cb |-> parent.cb, obj |-> ptr, alias |-> TRUE]

SpAlias(i, j, ptr) ==
  /\ Defined
  /\ FirstFreeSp(i) /\ sp[j].live
  /\ sp' = [sp EXCEPT ![i] = AliasOf(sp[j], ptr)]
  /\ \E H \in Acquire(Heap, sp[j].cb) : Commit(H)

\* shared_ptr(const shared_ptr&)
SpCopy(i, j) ==
  /\ Defined
  /\ FirstFreeSp(i) /\ sp[j].live
  /\ sp' = [sp EXCEPT ![i] = sp[j]]
  /\ \E H \in Acquire(Heap, sp[j].cb) : Commit(H)

\* (mutant) a move that leaves the source as it was
MovedFrom_Kept(s) == s

\* shared_ptr(shared_ptr&&): other.obj = nullptr; other.cb = nullptr
MovedFrom(s) == NullSp

SpMove(i, j) ==
  /\ Defined
  /\ FirstFreeSp(i) /\ sp[j].live
  /\ sp' = [sp EXCEPT ![i] = sp[j], ![j] = MovedFrom(sp[j])]
  /\ Commit(Heap)

\* operator=(const shared_ptr&): new_sp(other); swap(new_sp); ~new_sp
SpAssign(i, j) ==
  /\ Defined
  /\ sp[i].live /\ sp[j].live
  /\ sp' = [sp EXCEPT ![i] = sp[j]]
  /\ \E H1 \in Acquire(Heap, sp[j].cb) :
       \E H2 \in SharedUnlink(H1, sp[i].cb) : Commit(H2)

\* operator=(shared_ptr&&): new_sp(std::move(other)); swap(new_sp); ~new_sp
MoveAssigned(s, i, j) ==
  LET taken == [s EXCEPT ![j] = MovedFrom(s[j])]    \* new_sp(std::move(other))
  IN [taken EXCEPT ![i] = s[j]]                     \* this->swap(new_sp)

\* what ~new_sp unlinks: the block *this held once `other` was moved from
MoveAssignDrops(s, i, j) == IF i = j THEN Null ELSE s[i].cb

SpMoveAssign(i, j) ==
  /\ Defined
  /\ sp[i].live /\ sp[j].live
  /\ sp' = MoveAssigned(sp, i, j)
  /\ \E H \in SharedUnlink(Heap, MoveAssignDrops(sp, i, j)) : Commit(H)

\* reset()
SpReset(i) ==
  /\ Defined
  /\ sp[i].live
  /\ sp' = [sp EXCEPT ![i] = NullSp]
  /\ \E H \in SharedUnlink(Heap, sp[i].cb) : Commit(H)

\* reset(T_reset* new_ptr, Deleter d): unlink(); make_cb(new_ptr, d)
SpResetRaw(i, p) ==
  /\ Defined
  /\ sp[i].live
  /\ FreshBlocks # {} /\ p \in RawPtrs(FreshBlock)
  /\ sp' = [sp EXCEPT ![i] = [live |-> TRUE, cb |-> FreshBlock, obj |-> p,
                               alias |-> FALSE]]
  /\ \E H \in SharedUnlink(Heap, sp[i].cb) : Commit(MakeCbOk(H, FreshBlock, p))

SpResetRawFail(i, q) ==
  /\ Defined
  /\ sp[i].live
  /\ q \in FreshDrops /\ q = FreshDrop
  /\ sp' = [sp EXCEPT ![i] = NullSp]
  /\ \E H \in SharedUnlink(Heap, sp[i].cb) : Commit(MakeCbFail(H, q))

\* ~shared_ptr()
SpDestroy(i) ==
  /\ Defined
  /\ sp[i].live
  /\ sp' = [sp EXCEPT ![i] = DeadSp]
  /\ \E H \in SharedUnlink(Heap, sp[i].cb) : Commit(H)

\* ------------------------------------------------------ weak_ptr operations
\* a weak_ptr variable of the program (not a member of a payload object)
Plain(k) == wp[k].live /\ wp[k].home = Null

\* weak_ptr() noexcept = default
WpDefault(k) ==
  /\ Defined
  /\ FirstFreeWp(k)
  /\ Commit([Heap EXCEPT !.wp[k] = NullWp])
  /\ UNCHANGED sp

\* the weak_ptr that observes what s holds
WeakOf(s) == [live |-> TRUE, cb |-> s.cb, obj |-> s.obj, alias |-> s.alias,
              home |-> Null]

\* weak_ptr(const shared_ptr<T>&)
WpFromShared(k, j) ==
  /\ Defined
  /\ FirstFreeWp(k) /\ sp[j].live
  /\ \E H \in Observe(Heap, sp[j].cb) : Commit([H EXCEPT !.wp[k] = WeakOf(sp[j])])
  /\ UNCHANGED sp

\* weak_ptr(const weak_ptr<T>&)
WpCopy(k, l) ==
  /\ Defined
  /\ FirstFreeWp(k) /\ wp[l].live
  /\ \E H \in Observe(Heap, wp[l].cb) :
       Commit([H EXCEPT !.wp[k] = [wp[l] EXCEPT !.home = Null]])
  /\ UNCHANGED sp

\* weak_ptr(weak_ptr<T>&&)
WpMove(k, l) ==
  /\ Defined
  /\ FirstFreeWp(k) /\ Plain(l)
  /\ Commit([Heap EXCEPT !.wp[k] = wp[l], !.wp[l] = NullWp])
  /\ UNCHANGED sp

\* operator=(const weak_ptr&): new_wp(other); swap(new_wp); ~new_wp
WpAssign(k, l) ==
  /\ Defined
  /\ Plain(k) /\ wp[l].live
  /\ \E H1 \in Observe(Heap, wp[l].cb) :
       \E H2 \in WeakUnlink(H1, wp[k].cb) :
         Commit([H2 EXCEPT !.wp[k] = [wp[l] EXCEPT !.home = Null]])
  /\ UNCHANGED sp

\* operator=(weak_ptr&&): new_wp(std::move(other)); swap(new_wp); ~new_wp
WpMoveAssign(k, l) ==
  /\ Defined
  /\ Plain(k) /\ Plain(l)
  /\ \E H \in WeakUnlink(Heap, IF k = l THEN Null ELSE wp[k].cb) :
       Commit([[H EXCEPT !.wp[l] = NullWp] EXCEPT !.wp[k] = wp[l]])
  /\ UNCHANGED sp

\* operator=(const shared_ptr<T>&): unlink(); cb = other.cb; obj = other.obj;
\* if (other.cb) cb->weak_ref++
WpAssignShared(k, j) ==
  /\ Defined
  /\ Plain(k) /\ sp[j].live
  /\ \E H1 \in WeakUnlink(Heap, wp[k].cb) :
       \E H2 \in Observe(H1, sp[j].cb) :
         Commit([H2 EXCEPT !.wp[k] = WeakOf(sp[j])])
  /\ UNCHANGED sp

\* The same assignment to the weak_ptr member of the object s points to
\* (p->self = p): the member lives in the payload and dies with it.
WpMemberAssign(k, j) ==
  /\ Defined
  /\ FirstFreeWp(k) /\ sp[j].live
  /\ sp[j].cb # Null /\ sp[j].obj # Null
  /\ blk[sp[j].cb].st = "live" /\ blk[sp[j].cb].unlinked = 0
  /\ blk[sp[j].cb].p = sp[j].obj
  /\ Members(Heap, sp[j].cb) = {}
  /\ \E H \in Observe(Heap, sp[j].cb) :
       Commit([H EXCEPT !.wp[k] = [WeakOf(sp[j]) EXCEPT !.home = sp[j].cb]])
  /\ UNCHANGED sp

\* (mutant) a lock() that does not look at strong_ref
LockSucceeds_NoExpiryCheck(H, w) == w.cb # Null

\* lock(): cb != nullptr && cb->strong_ref != 0
LockSucceeds(H, w) == w.cb # Null /\ H.blk[w.cb].strong # 0

\* lock(), the shared_ptr returned
Locked(H, w) ==
  IF LockSucceeds(H, w)
    THEN [live |-> TRUE, cb |-> w.cb, obj |-> w.obj, alias |-> w.alias]
    ELSE NullSp

\* lock(), the effect on the block: cb->strong_ref++
LockHeap(H, w) == IF LockSucceeds(H, w) THEN IncStrong(H, w.cb) ELSE H

WpLock(k, i) ==
  /\ Defined
  /\ wp[k].live /\ FirstFreeSp(i)
  /\ \E H \in (IF wp[k].cb = Null THEN {Heap} ELSE Load(Heap, wp[k].cb)) :
       /\ sp' = [sp EXCEPT ![i] = Locked(H, wp[k])]
       /\ Commit(LockHeap(H, wp[k]))

\* ~weak_ptr()
WpDestroy(k) ==
  /\ Defined
  /\ Plain(k)
  /\ \E H \in WeakDestroy(Heap, k) : Commit(H)
  /\ UNCHANGED sp

Next ==
  \/ \E i \in SP : SpDefault(i)
  \/ \E i \in SP : SpNullptr(i)
  \/ \E i \in SP : \E p \in 0..MaxBlocks : SpFromRaw(i, p)
  \/ \E i \in SP : \E q \in Dropped : SpFromRawFail(i, q)
  \/ \E i \in SP : MakeShared(i)
  \/ \E i, j \in SP : \E ptr \in AliasPtrs : SpAlias(i, j, ptr)
  \/ \E i, j \in SP : SpCopy(i, j)
  \/ \E i, j \in SP : SpMove(i, j)
  \/ \E i, j \in SP : SpAssign(i, j)
  \/ \E i, j \in SP : SpMoveAssign(i, j)
  \/ \E i \in SP : SpReset(i)
  \/ \E i \in SP : \E p \in 0..MaxBlocks : SpResetRaw(i, p)
  \/ \E i \in SP : \E q \in Dropped : SpResetRawFail(i, q)
  \/ \E i \in SP : SpDestroy(i)
  \/ \E k \in WP : WpDefault(k)
  \/ \E k \in WP : \E j \in SP : WpFromShared(k, j)
  \/ \E k, l \in WP : WpCopy(k, l)
  \/ \E k, l \in WP : WpMove(k, l)
  \/ \E k, l \in WP : WpAssign(k, l)
  \/ \E k, l \in WP : WpMoveAssign(k, l)
  \/ \E k \in WP : \E j \in SP : WpAssignShared(k, j)
  \/ \E k \in WP : \E j \in SP : WpMemberAssign(k, j)
  \/ \E k \in WP : \E i \in SP : WpLock(k, i)
  \/ \E k \in WP : WpDestroy(k)

Spec == Init /\ [][Next]_vars

\* ------------------------------------------------------ vocabulary of the claims
\* the live shared_ptrs / weak_ptrs that reference block b
Holders(b) == {i \in SP : sp[i].live /\ sp[i].cb = b}
Observers(b) == {k \in WP : wp[k].live /\ wp[k].cb = b}
\* an empty shared_ptr, as seen through its interface
IsEmpty(s) == get(s) = Null /\ use_count(s) = 0
\* b is no block, or a block in existence whose strong_ref counts its holders
Counted(b) ==
  b = Null \/ (blk[b].st = "live" /\ blk[b].strong = Cardinality(Holders(b)))
\* the release action of block b runs / block b is deleted in this step
Releases(b) == blk'[b].unlinked # blk[b].unlinked
Deletes(b) == blk'[b].deletes # blk[b].deletes

\* C1: the release action of a block runs exactly once, only at the step that
\* takes strong_ref from 1 to 0, never while a shared_ptr still references
\* the block and never a second time.
C1_ReleaseOnceAtLastOwner ==
  [][\A b \in Blocks :
       Releases(b) =>
         /\ blk[b].unlinked = 0 /\ blk'[b].unlinked = 1
         /\ blk[b].strong = 1
         /\ Holders(b)' = {}]_vars

\* C2: a block is deleted exactly once, only with both counters at zero (no
\* shared_ptr or weak_ptr left on it), and only after its payload was released.
C2_DeleteOnceAfterRelease ==
  [][\A b \in Blocks :
       Deletes(b) =>
         /\ blk[b].deletes = 0 /\ blk'[b].deletes = 1
         /\ blk'[b].unlinked >= 1
         /\ Holders(b)' = {} /\ Observers(b)' = {}]_vars

\* C3: use_count() of a shared_ptr is the number of live shared_ptrs that
\* reference its block, and 0 for one without a block.
C3_UseCountIsHolders ==
  \A i \in SP :
    sp[i].live =>
      use_count(sp[i]) =
        (IF sp[i].cb = Null THEN 0 ELSE Cardinality(Holders(sp[i].cb)))

\* C4: lock() returns a shared_ptr that owns (use_count() > 0) iff the
\* observer has a block whose strong_ref is nonzero at the call; then
\* strong_ref grows by exactly one and the result's use_count() shows it; else
\* the result is empty and no counter changes.
C4_LockIffStrongNonzero ==
  [][\A k \in WP, i \in SP :
       WpLock(k, i) =>
         LET b == wp[k].cb
             alive == b # Null /\ blk[b].strong # 0
         IN /\ (use_count(sp[i])' # 0) <=> alive
            /\ alive =>
                 /\ sp'[i].cb = b /\ get(sp[i])' = wp[k].obj
                 /\ blk'[b].strong = blk[b].strong + 1
                 /\ use_count(sp[i])' = blk[b].strong + 1
                 /\ blk'[b].weak = blk[b].weak
                 /\ \A c \in Blocks \ {b} : blk'[c] = blk[c]
            /\ ~alive =>
                 /\ sp'[i].cb = Null /\ get(sp[i])' = Null
                 /\ blk' = blk]_vars

\* C4 witness: the block of a make_shared object whose owners are all gone
\* (payload released once, block kept by its observer), and the empty
\* shared_ptr that lock() returns for it.
C4_Witness ==
  \E k \in WP, i \in SP :
    /\ wp[k].live /\ wp[k].cb # Null
    /\ blk[wp[k].cb].kind = "obj" /\ blk[wp[k].cb].st = "live"
    /\ blk[wp[k].cb].strong = 0 /\ blk[wp[k].cb].unlinked = 1
    /\ Holders(wp[k].cb) = {}
    /\ sp[i] = NullSp

\* C5: when the block allocation of the raw-pointer constructor fails, the
\* release action runs on the pointer exactly once, no block and no
\* shared_ptr comes to exist, and the pointer is never released again.
C5_FailedAdoptionReleasesOnce ==
  [][/\ \A i \in SP, q \in Dropped :
          SpFromRawFail(i, q) =>
            /\ dropped'[q] = [given |-> TRUE, freed |-> 1]
            /\ blk' = blk /\ sp' = sp /\ wp' = wp
     /\ \A q \in Dropped : dropped[q].given => dropped'[q] = dropped[q]]_vars

\* C5 witness: a raw pointer released once by a failed construction, with no
\* block and no shared_ptr in existence.
C5_Witness ==
  /\ \E q \in Dropped : dropped[q].given /\ dropped[q].freed = 1
  /\ \A b \in Blocks : blk[b].st = "unalloc"
  /\ \A i \in SP : ~sp[i].live

\* C6: the aliasing constructor shares a non-empty owner's block and adds one
\* to its strong_ref; the payload is not released while an alias is alive;
\* destroying the alias takes one from the same block's strong_ref.
C6_AliasKeepsPayloadAlive ==
  [][/\ \A i, j \in SP :
          (SpAlias(i, j, Member) /\ sp[j].cb # Null
                                 /\ blk[sp[j].cb].st = "live") =>
            /\ sp'[i].cb = sp[j].cb
            /\ blk'[sp[j].cb].strong = blk[sp[j].cb].strong + 1
     /\ \A i \in SP :
          (sp[i].live /\ sp[i].alias /\ sp[i].cb # Null)' =>
            (blk[sp[i].cb].st = "live" /\ blk[sp[i].cb].unlinked = 0)'
     /\ \A i \in SP :
          (SpDestroy(i) /\ sp[i].alias /\ sp[i].cb # Null
                        /\ blk[sp[i].cb].st = "live") =>
            blk'[sp[i].cb].strong = blk[sp[i].cb].strong - 1]_vars

\* C7 (as claimed): after move construction or move assignment the source is
\* empty, the destination's use_count() is the source's before the move, and
\* no block changes except, for move assignment, the destination's previous
\* one.  Stated for pointers whose blocks count their holders.
C7_MoveTransfers ==
  [][/\ \A i, j \in SP :
          (SpMove(i, j) /\ Counted(sp[j].cb)) =>
            /\ IsEmpty(sp[j])'
            /\ use_count(sp[i])' = use_count(sp[j])
            /\ blk' = blk
     /\ \A i, j \in SP :
          (SpMoveAssign(i, j) /\ Counted(sp[i].cb) /\ Counted(sp[j].cb)) =>
            /\ IsEmpty(sp[j])'
            /\ use_count(sp[i])' = use_count(sp[j])
            /\ \A b \in Blocks : b # sp[i].cb => blk'[b] = blk[b]]_vars

\* C7 (amended): move construction is as claimed.  Move assignment a = move(b)
\* of distinct pointers leaves b empty and a with b's block and value, and
\* changes no block but a's previous one; a.use_count() is b's previous
\* use_count() when the two held different blocks, and one less when they
\* shared a block (which the assignment then unlinks once).  Self move
\* assignment changes nothing: the pointer keeps its block and value.
C7_MoveTransfersAmended ==
  [][/\ \A i, j \in SP :
          SpMove(i, j) =>
            /\ IsEmpty(sp[j])'
            /\ sp'[i].cb = sp[j].cb /\ get(sp[i])' = get(sp[j])
            /\ use_count(sp[i])' = use_count(sp[j])
            /\ blk' = blk
     /\ \A i, j \in SP :
          SpMoveAssign(i, j) =>
            /\ sp'[i].cb = sp[j].cb /\ get(sp[i])' = get(sp[j])
            /\ \A b \in Blocks : b # sp[i].cb => blk'[b] = blk[b]
            /\ i = j => (sp' = sp /\ blk' = blk)
            /\ i # j => IsEmpty(sp[j])'
            /\ (i # j /\ sp[j].cb # sp[i].cb) =>
                 use_count(sp[i])' = use_count(sp[j])
            /\ (i # j /\ sp[j].cb = sp[i].cb /\ sp[i].cb # Null
                      /\ blk'[sp[i].cb].st = "live") =>
                 use_count(sp[i])' = use_count(sp[j]) - 1]_vars

\* C7 witness: the state after a = move(b), a having held another block as its
\* last owner: b is empty, a holds the moved block (still at use_count 1) and
\* a's previous block is released and deleted.
C7_Witness ==
  \E i, j \in SP, b \in Blocks :
    /\ i # j /\ sp[j] = NullSp
    /\ sp[i].live /\ sp[i].cb # Null /\ sp[i].cb # b
    /\ blk[sp[i].cb].st = "live" /\ blk[sp[i].cb].strong = 1
    /\ blk[sp[i].cb].unlinked = 0
    /\ blk[b].st = "deleted" /\ blk[b].unlinked = 1 /\ blk[b].deletes = 1
    /\ blk[b].kind = "obj"

\* C8: two shared_ptrs compare equal with operator== iff their get() are
\* equal, whichever block each references.  Stated for pointers whose blocks
\* count their holders.
C8_EqualIffSameValue ==
  \A i, j \in SP :
    (sp[i].live /\ sp[j].live /\ Counted(sp[i].cb) /\ Counted(sp[j].cb)) =>
      (sp_equal(sp[i], sp[j]) <=> (get(sp[i]) = get(sp[j])))

\* C9: every shared_ptr that does not descend from an aliasing construction
\* has cb == null iff obj == null.
C9_BlockIffValue ==
  \A i \in SP :
    (sp[i].live /\ ~sp[i].alias) => ((sp[i].cb = Null) <=> (sp[i].obj = Null))

\* C10: make_shared allocates exactly one block and returns a shared_ptr on it
\* with strong_ref 1 and weak_ref 0 (use_count() 1); copying that shared_ptr
\* makes use_count() 2 on both holders.
C10_MakeSharedCounts ==
  [][/\ \A i \in SP :
          MakeShared(i) =>
            /\ Cardinality({b \in Blocks : blk[b].st = "unalloc" /\
                                           blk'[b].st # "unalloc"}) = 1
            /\ sp'[i].cb # Null /\ blk[sp'[i].cb].st = "unalloc"
            /\ blk'[sp'[i].cb].st = "live"
            /\ blk'[sp'[i].cb].strong = 1 /\ blk'[sp'[i].cb].weak = 0
            /\ use_count(sp[i])' = 1
            /\ \A c \in Blocks \ {sp'[i].cb} : blk'[c] = blk[c]
     /\ \A i, j \in SP :
          (SpCopy(i, j) /\ sp[j].cb # Null /\ blk[sp[j].cb].kind = "obj"
                        /\ use_count(sp[j]) = 1) =>
            (use_count(sp[i])' = 2 /\ use_count(sp[j])' = 2)]_vars

\* C10 witness: a make_shared block held by the pointer it was returned to and
\* by a copy, both at use_count() 2.
C10_Witness ==
  \E i, j \in SP :
    /\ i # j /\ sp[i].live /\ sp[j].live
    /\ sp[i].cb # Null /\ sp[i].cb = sp[j].cb
    /\ blk[sp[i].cb].kind = "obj" /\ blk[sp[i].cb].weak = 0
    /\ ~sp[i].alias /\ ~sp[j].alias
    /\ use_count(sp[i]) = 2 /\ use_count(sp[j]) = 2

\* C11: when the payload itself holds the only weak_ptr on its own block,
\* destroying the last shared_ptr deletes the block exactly once and uses no
\* freed memory.
C11_SelfObservedPayloadSafe ==
  [][\A i \in SP :
       (SpDestroy(i) /\ sp[i].cb # Null
          /\ blk[sp[i].cb].st = "live" /\ blk[sp[i].cb].unlinked = 0
          /\ blk[sp[i].cb].strong = 1 /\ Holders(sp[i].cb) = {i}
          /\ Observers(sp[i].cb) # {}
          /\ Observers(sp[i].cb) = Members(Heap, sp[i].cb)) =>
         (blk'[sp[i].cb].deletes = 1 /\ ~uaf')]_vars

\* C12: no live shared_ptr or weak_ptr holds a deleted block, and no operation
\* reads, writes or calls into a deleted block.
C12_NoDeletedBlockInUse ==
  /\ ~uaf
  /\ \A i \in SP :
       (sp[i].live /\ sp[i].cb # Null) => blk[sp[i].cb].st # "deleted"
  /\ \A k \in WP :
       (wp[k].live /\ wp[k].cb # Null) => blk[wp[k].cb].st # "deleted"

\* C13: copy assignment a = b leaves a with b's block and value; when the
\* blocks differ, b's block gains exactly one strong reference and a's
\* previous block loses exactly one, its payload being released iff a was its
\* last owner; when a and b share a block (a = a included) no block changes.
C13_CopyAssignCounts ==
  [][\A i, j \in SP :
       SpAssign(i, j) =>
         /\ sp'[i].cb = sp[j].cb /\ get(sp[i])' = get(sp[j])
         /\ (sp[j].cb # sp[i].cb /\ sp[j].cb # Null) =>
              blk'[sp[j].cb].strong = blk[sp[j].cb].strong + 1
         /\ (sp[j].cb # sp[i].cb /\ sp[i].cb # Null) =>
              /\ blk[sp[i].cb].strong >= 1
              /\ blk'[sp[i].cb].st = "live" =>
                   blk'[sp[i].cb].strong = blk[sp[i].cb].strong - 1
              /\ Releases(sp[i].cb) <=> (Holders(sp[i].cb) = {i})
         /\ sp[j].cb = sp[i].cb => blk' = blk]_vars

\* C14: destroying the last shared_ptr of a block that weak_ptrs observe
\* releases the payload at that step and keeps the block; destroying a
\* weak_ptr takes one from weak_ref and deletes the block iff both counters are
\* then zero, which is when no shared_ptr or weak_ptr is left on it.
C14_WeakKeepsBlockOnly ==
  [][/\ \A i \in SP :
          (SpDestroy(i) /\ sp[i].cb # Null /\ blk[sp[i].cb].st = "live"
             /\ Holders(sp[i].cb) = {i} /\ blk[sp[i].cb].weak > 0) =>
            (Releases(sp[i].cb) /\ blk'[sp[i].cb].st = "live")
     /\ \A k \in WP, b \in Blocks :
          (WpDestroy(k) /\ wp[k].cb = b /\ blk[b].st = "live") =>
            /\ blk'[b].st = "live" => blk'[b].weak = blk[b].weak - 1
            /\ Deletes(b) <=> (blk[b].strong + blk[b].weak - 1 = 0)
            /\ Deletes(b) => (Holders(b)' = {} /\ Observers(b)' = {})]_vars

\* C15: weak_ref of every live block is the number of live weak_ptrs that
\* reference it.  On a live block, constructing a weak_ptr from a shared_ptr
\* or copying a weak_ptr adds one, moving a weak_ptr changes no block and
\* leaves the source empty, destroying a weak_ptr subtracts one, and none of
\* them changes strong_ref.
C15_WeakRefIsObservers ==
  [][/\ (\A b \in Blocks :
           blk[b].st = "live" => blk[b].weak = Cardinality(Observers(b)))'
     /\ \A k \in WP, j \in SP, b \in Blocks :
          (WpFromShared(k, j) /\ sp[j].cb = b /\ blk[b].st = "live") =>
            /\ wp'[k].cb = b
            /\ blk' = [blk EXCEPT ![b].weak = @ + 1]
     /\ \A k, l \in WP, b \in Blocks :
          (WpCopy(k, l) /\ wp[l].cb = b /\ blk[b].st = "live") =>
            /\ wp'[k].cb = b /\ wp'[l].cb = b
            /\ blk' = [blk EXCEPT ![b].weak = @ + 1]
     /\ \A k, l \in WP :
          WpMove(k, l) =>
            /\ wp'[k].cb = wp[l].cb /\ wp'[k].obj = wp[l].obj
            /\ wp'[l].cb = Null /\ wp'[l].obj = Null
            /\ blk' = blk
     /\ \A k \in WP, b \in Blocks :
          (WpDestroy(k) /\ wp[k].cb = b /\ blk[b].st = "live") =>
            /\ blk[b].weak >= 1
            /\ blk'[b].strong = blk[b].strong
            /\ blk'[b].st = "live" => blk'[b].weak = blk[b].weak - 1
            /\ \A c \in Blocks \ {b} : blk'[c] = blk[c]]_vars

\* C15 witness: a live block with one owner, observed by two weak_ptr
\* variables of the program, its weak_ref at 2.
C15_Witness ==
  \E b \in Blocks :
    /\ blk[b].st = "live" /\ blk[b].strong = 1 /\ blk[b].weak = 2
    /\ Cardinality(Observers(b)) = 2 /\ Cardinality(Holders(b)) = 1
    /\ \A k \in Observers(b) : wp[k].home = Null

\* C16: w = sp leaves w observing sp's block and value.  When the blocks
\* differ, w's previous block loses one weak reference (and is deleted iff both
\* its counters are then zero) and sp's block gains one, its strong_ref
\* unchanged; when w already observes sp's block, that block is not deleted
\* and its counters are the same before and after.
C16_AssignFromShared ==
  [][\A k \in WP, j \in SP, a, b \in Blocks \cup {Null} :
       (WpAssignShared(k, j) /\ wp[k].cb = a /\ sp[j].cb = b
          /\ (a # Null => blk[a].st = "live")
          /\ (b # Null => blk[b].st = "live")) =>
         /\ wp'[k].cb = b /\ wp'[k].obj = sp[j].obj
         /\ (a # b /\ a # Null) =>
              /\ blk'[a].st = "live" => blk'[a].weak = blk[a].weak - 1
              /\ blk'[a].strong = blk[a].strong
              /\ Deletes(a) <=> (blk[a].strong + blk[a].weak - 1 = 0)
         /\ (a # b /\ b # Null) => blk'[b] = [blk[b] EXCEPT !.weak = @ + 1]
         /\ (a = b /\ a # Null) => (~Deletes(a) /\ blk'[a] = blk[a])]_vars

\* C17: reset() and the destructor of a shared_ptr that holds a block take
\* exactly one from that block's strong_ref and touch no other block; after
\* reset() the pointer is empty (get() null, use_count() 0); reset() of a
\* shared_ptr without a block changes no block.
C17_ResetIsDestroy ==
  [][/\ \A i \in SP, b \in Blocks :
          ((SpReset(i) \/ SpDestroy(i)) /\ sp[i].cb = b /\ blk[b].st = "live") =>
            /\ blk[b].strong >= 1
            /\ blk'[b].st = "live" => blk'[b].strong = blk[b].strong - 1
            /\ \A c \in Blocks \ {b} : blk'[c] = blk[c]
     /\ \A i \in SP :
          SpReset(i) => (sp'[i].live /\ IsEmpty(sp[i])')
     /\ \A i \in SP :
          (SpReset(i) /\ sp[i].cb = Null) => blk' = blk]_vars

\* C18: reset(p, d) takes exactly one from the strong_ref of the block held
\* before and then holds p in a new block with strong_ref 1 and weak_ref 0;
\* when the allocation fails, d runs on p exactly once, no block is allocated
\* and the shared_ptr is left empty, its previous block decremented all the
\* same.
C18_ResetAdopts ==
  [][/\ \A i \in SP, b \in Blocks :
          (((\E p \in 0..MaxBlocks : SpResetRaw(i, p)) \/
            (\E q \in Dropped : SpResetRawFail(i, q)))
             /\ sp[i].cb = b /\ blk[b].st = "live") =>
            /\ blk[b].strong >= 1
            /\ blk'[b].st = "live" =>
                 (blk'[b].strong = blk[b].strong - 1 /\ blk'[b].weak = blk[b].weak)
     /\ \A i \in SP, p \in 0..MaxBlocks, n \in Blocks :
          (SpResetRaw(i, p) /\ sp'[i].cb = n) =>
            /\ blk[n].st = "unalloc" /\ blk'[n].st = "live"
            /\ blk'[n].strong = 1 /\ blk'[n].weak = 0 /\ blk'[n].p = p
            /\ sp'[i].live /\ sp'[i].obj = p
            /\ \A c \in Blocks \ {n, sp[i].cb} : blk'[c] = blk[c]
            /\ dropped' = dropped
     /\ \A i \in SP, q \in Dropped :
          SpResetRawFail(i, q) =>
            /\ dropped'[q] = [given |-> TRUE, freed |-> 1]
            /\ \A r \in Dropped \ {q} : dropped'[r] = dropped[r]
            /\ sp'[i].live /\ sp'[i].cb = Null /\ sp'[i].obj = Null
            /\ \A c \in Blocks : blk[c].st = "unalloc" => blk'[c] = blk[c]
            /\ \A c \in Blocks \ {sp[i].cb} : blk'[c] = blk[c]]_vars

\* C19: shared_ptr::unlink never runs on a block whose strong_ref is 0 and
\* weak_ptr::unlink never on one whose weak_ref is 0 (the counters taken at
\* the call, after the increment an assignment makes first), so no counter of
\* a block in existence ever wraps.
C19_NoDecrementAtZero ==
  [][/\ \A i \in SP, b \in Blocks :
          ((SpDestroy(i) \/ SpReset(i) \/
            (\E p \in 0..MaxBlocks : SpResetRaw(i, p)) \/
            (\E q \in Dropped : SpResetRawFail(i, q)))
             /\ sp[i].cb = b /\ blk[b].st = "live") =>
            blk[b].strong >= 1
     /\ \A i, j \in SP, b \in Blocks :
          (SpAssign(i, j) /\ sp[i].cb = b /\ blk[b].st = "live") =>
            blk[b].strong + (IF sp[j].cb = b THEN 1 ELSE 0) >= 1
     /\ \A i, j \in SP, b \in Blocks :
          (SpMoveAssign(i, j) /\ MoveAssignDrops(sp, i, j) = b
                              /\ blk[b].st = "live") =>
            blk[b].strong >= 1
     /\ \A k \in WP, b \in Blocks :
          ((WpDestroy(k) \/ (\E j \in SP : WpAssignShared(k, j)) \/
            (\E l \in WP \ {k} : WpMoveAssign(k, l)))
             /\ wp[k].cb = b /\ blk[b].st = "live") =>
            blk[b].weak >= 1
     /\ \A k, l \in WP, b \in Blocks :
          (WpAssign(k, l) /\ wp[k].cb = b /\ blk[b].st = "live") =>
            blk[b].weak + (IF wp[l].cb = b THEN 1 ELSE 0) >= 1
     /\ \A b \in Blocks :
          (Releases(b) /\ blk[b].st = "live" /\ Members(Heap, b) # {}) =>
            blk[b].weak >= 1
     /\ \A b \in Blocks :
          blk'[b].st = "live" => (blk'[b].strong >= 0 /\ blk'[b].weak >= 0)]_vars
====
